---- MODULE Spec2Model ----
(***************************************************************************)
(* Model of pyscriptpacker's ModuleGraph (pyscriptpacker/graph.py): the    *)
(* scan of source roots, the derivation of module names, the resolution of *)
(* import references and the topological ordering of the registry.         *)
(*                                                                         *)
(* Representation.  Paths are absolute.  A directory path is the sequence  *)
(* of its directory names below a base directory; neither the base         *)
(* directory nor a directory above it holds a Python file, and <<>> is the *)
(* base directory itself.  A file is a record [dir, stem, ext].  A         *)
(* dotted name "pkg.sub.mod" is the sequence <<"pkg","sub","mod">>; no     *)
(* directory name or stem of the model contains a dot or a separator, so   *)
(* two dotted strings are equal exactly when their sequences are.  A       *)
(* relative file name "pkg/sub/mod.py" is [segs |-> <<"pkg","sub","mod">>, *)
(* ext |-> "py"].                                                          *)
(***************************************************************************)
EXTENDS Integers, Sequences, FiniteSets, TLC

VARIABLES
    tree,       \* the file tree: file record -> list of ImportInfo of its text
    sysPath,    \* sys.path when the ModuleGraph was constructed
    modules,    \* ModuleGraph._modules
    cache,      \* ModuleGraph._module_cache
    paths,      \* ModuleGraph._paths
    lastOp      \* the operation that ran last, its arguments and what it returned

vars == <<tree, sysPath, modules, cache, paths, lastOp>>

----------------------------------------------------------------------------
(* Bounds of the model *)

MaxFiles == 2       \* files in the tree
MaxImports == 2     \* import statements in the whole tree
MaxPaths == 2       \* parse_paths is not started once _paths holds this many entries

----------------------------------------------------------------------------
(* Sequences helpers *)

Last(s) == s[Len(s)]
Front(s) == SubSeq(s, 1, Len(s) - 1)

RECURSIVE Reverse(_)
Reverse(s) == IF s = <<>> THEN <<>> ELSE Append(Reverse(Tail(s)), Head(s))

IsPrefix(p, s) == Len(p) <= Len(s) /\ SubSeq(s, 1, Len(p)) = p

\* Python's None for a module name (names are never empty)
None == <<>>
\* extrapath is None or a directory: an option, <<>> or <<dir>>
NoExtra == <<>>
Some(d) == <<d>>

----------------------------------------------------------------------------
(* The file system, read through os.path.exists / os.listdir / os.walk *)

Files == DOMAIN tree

File(d, s, e) == [dir |-> d, stem |-> s, ext |-> e]

\* os.path.exists(path) for a directory path: the base directory, or a
\* directory some file lies in or under
DirExists(d) == d = <<>> \/ \E f \in Files : IsPrefix(d, f.dir)

\* os.path.exists(os.path.join(path, imp_filename)) for a relative file name
FileExists(path, file_name) ==
    File(path \o Front(file_name.segs), Last(file_name.segs), file_name.ext) \in Files

\* os.path.dirname(os.path.join(path, imp_filename))
DirName(path, file_name) == path \o Front(file_name.segs)

\* '.py' in file, for a directory entry that is a file: a substring test, not
\* a suffix test, so it is true of x.py and also of an entry that is no source
\* file, which ext "pyc" stands for (x.pyc, .pylintrc, .python-version)
DotPyIn(f) == f.ext \in {"py", "pyc"}

IsSetupPy(f) == f.stem = "setup" /\ f.ext = "py"

\* graph.py 158-160: any('.py' in file and file != 'setup.py' for file in
\* os.listdir(dir)); directory names of the model never contain '.py'
ContainPython(d) == \E f \in Files : f.dir = d /\ DotPyIn(f) /\ ~IsSetupPy(f)

\* graph.py 125: file.endswith('.py') and file != 'setup.py'
IsScanned(f) == f.ext = "py" /\ ~IsSetupPy(f)

----------------------------------------------------------------------------
(* ModuleGraph._find_module_name *)

\* graph.py 155-162: pop directory names, innermost first, until the parent
\* of the directory just popped holds no Python file
RECURSIVE PopElements(_, _)
PopElements(elements, module_name) ==
    IF elements = <<>> THEN module_name
    ELSE LET popped == Append(module_name, Last(elements))
             rest == Front(elements)
         IN  IF ~ContainPython(rest) THEN popped ELSE PopElements(rest, popped)

\* '__init__.py' in file_name (a substring test: true of __init__.pyc too)
HasInitPy(file_name) ==
    Last(file_name.segs) = "__init__" /\ file_name.ext \in {"py", "pyc"}

\* graph.py 151-174
FindModuleName(file_name, file_path) ==
    LET module_name == Reverse(PopElements(file_path, <<>>))
    IN  IF ~HasInitPy(file_name)
        THEN module_name \o <<Last(file_name.segs)>>
        ELSE module_name

----------------------------------------------------------------------------
(* ModuleGraph._find_module_of_import and its helpers.  Each returns the   *)
(* pair [result, cache]: the value returned and _module_cache afterwards.  *)

\* imp_name in sys.modules or imp_name in sys.builtin_module_names
Builtins == {<<"os">>}

CacheKey(name, extrapath) == <<name, extrapath>>

CachePut(c, name, extrapath, module_name) ==
    (CacheKey(name, extrapath) :> module_name) @@
        [k \in DOMAIN c \ {CacheKey(name, extrapath)} |-> c[k]]

\* imp_name.replace('.', os.path.sep) + '.py'
ImpFileName(imp_name) == [segs |-> imp_name, ext |-> "py"]

\* graph.py 224-231: the first entry of _paths under which the file exists
\* (every entry of _paths in the model is a directory, so the isfile test
\* passes for each)
RECURSIVE FirstPathWith(_, _)
FirstPathWith(ps, file_name) ==
    IF ps = <<>> THEN <<>>
    ELSE IF FileExists(Head(ps), file_name) THEN <<Head(ps)>>
    ELSE FirstPathWith(Tail(ps), file_name)

\* graph.py 213-233
GetNameViaModule(imp_name, extrapath, ps, c) ==
    LET imp_filename == ImpFileName(imp_name)
        hit == FirstPathWith(ps, imp_filename)
    IN  IF extrapath # NoExtra /\ FileExists(extrapath[1], imp_filename)
        THEN LET module_name ==
                     FindModuleName(imp_filename, DirName(extrapath[1], imp_filename))
             IN  [result |-> module_name,
                  cache |-> CachePut(c, imp_name, extrapath, module_name)]
        ELSE IF hit # <<>>
        THEN LET module_name ==
                     FindModuleName(imp_filename, DirName(hit[1], imp_filename))
             IN  [result |-> module_name,
                  cache |-> CachePut(c, imp_name, extrapath, module_name)]
        ELSE [result |-> None, cache |-> c]

\* graph.py 235-236
GetNameViaPackage(imp_name, extrapath, ps, c) ==
    GetNameViaModule(imp_name \o <<"__init__">>, extrapath, ps, c)

\* the loop with the package marker tried before the module file
RECURSIVE ShortenLoopPackageFirst(_, _, _, _, _)
ShortenLoopPackageFirst(name, imp_name, extrapath, ps, c) ==
    IF name = <<>> THEN [result |-> imp_name, cache |-> c]
    ELSE LET p == GetNameViaPackage(name, extrapath, ps, c)
         IN  IF p.result # None THEN p
             ELSE LET m == GetNameViaModule(name, extrapath, ps, c)
                  IN  IF m.result # None THEN m
                      ELSE ShortenLoopPackageFirst(Front(name), imp_name, extrapath,
                                                   ps, c)

\* graph.py 201-211: try the name as a module, then as a package, then drop
\* its last dotted segment; the unshortened name when nothing is left
RECURSIVE ShortenLoop(_, _, _, _, _)
ShortenLoop(name, imp_name, extrapath, ps, c) ==
    IF name = <<>> THEN [result |-> imp_name, cache |-> c]
    ELSE LET m == GetNameViaModule(name, extrapath, ps, c)
         IN  IF m.result # None THEN m
             ELSE LET p == GetNameViaPackage(name, extrapath, ps, c)
                  IN  IF p.result # None THEN p
                      ELSE ShortenLoop(Front(name), imp_name, extrapath, ps, c)

\* imp_name.endswith('.*')
EndsWithWildcard(imp_name) == Len(imp_name) >= 2 /\ Last(imp_name) = "*"

\* level None (a plain import statement, graph.py 47)
NoLevel == -1

\* graph.py 185-196: file_path with imp_level - 1 trailing segments removed
\* when imp_level > 1, else None
ExtraPath(imp_level, file_path) ==
    IF imp_level # NoLevel /\ imp_level > 1
    THEN Some(SubSeq(file_path, 1, Len(file_path) - (imp_level - 1)))
    ELSE NoExtra

\* graph.py 176-211
FindModuleOfImport(imp_name, imp_level, file_path, ps, c) ==
    IF imp_name \in Builtins THEN [result |-> None, cache |-> c]
    ELSE IF EndsWithWildcard(imp_name) THEN [result |-> Front(imp_name), cache |-> c]
    ELSE LET extrapath == ExtraPath(imp_level, file_path)
         IN  IF CacheKey(imp_name, extrapath) \in DOMAIN c
             THEN [result |-> c[CacheKey(imp_name, extrapath)], cache |-> c]
             ELSE ShortenLoop(imp_name, imp_name, extrapath, ps, c)

----------------------------------------------------------------------------
(* Orders: sorted() on dotted names, and the order of a directory listing  *)

\* the names of the model in ascending string order
NameOrder ==
    <<"__init__", "a", "b", "c", "os", "pkg", "py", "pyc", "q", "r", "s", "setup",
      "sub", "sym">>

Rank(n) == CHOOSE i \in 1..Len(NameOrder) : NameOrder[i] = n

\* string order of two dotted names: segment by segment, a proper prefix first
RECURSIVE LexLess(_, _)
LexLess(x, y) ==
    IF y = <<>> THEN FALSE
    ELSE IF x = <<>> THEN TRUE
    ELSE IF Head(x) = Head(y) THEN LexLess(Tail(x), Tail(y))
    ELSE Rank(Head(x)) < Rank(Head(y))

\* sorted(S), or its reverse
RECURSIVE SortSet(_, _)
SortSet(S, rev) ==
    IF S = {} THEN <<>>
    ELSE LET first == CHOOSE x \in S :
                 \A y \in S \ {x} : IF rev THEN LexLess(y, x) ELSE LexLess(x, y)
         IN  <<first>> \o SortSet(S \ {first}, rev)

----------------------------------------------------------------------------
(* ModuleGraph.parse_file.  A graph g is [modules, cache, paths].          *)

Graph(m, c, ps) == [modules |-> m, cache |-> c, paths |-> ps]

\* graph.py 141-144: the imports of the file resolved one after the other;
\* calls lists, for each call of _find_module_of_import, its arguments,
\* whether its key was in _module_cache, and what it returned
RECURSIVE ResolveAll(_, _, _, _, _)
ResolveAll(import_infos, file_path, ps, c, calls) ==
    IF import_infos = <<>>
    THEN [imports |-> {calls[i].result : i \in 1..Len(calls)}, cache |-> c,
          calls |-> calls]
    ELSE LET imp == Head(import_infos)
             r == FindModuleOfImport(imp.name, imp.level, file_path, ps, c)
             call == [imp_name |-> imp.name, imp_level |-> imp.level,
                      cached |-> CacheKey(imp.name, ExtraPath(imp.level, file_path))
                                     \in DOMAIN c,
                      result |-> r.result]
         IN  ResolveAll(Tail(import_infos), file_path, ps, r.cache,
                        Append(calls, call))

\* graph.py 65-70, 135, 138, 147: the Module record of a parsed file
Module(module_name, f, imports) ==
    [module_name |-> module_name,
     file_name |-> <<f.stem, f.ext>>,
     is_package |-> (f.stem = "__init__" /\ f.ext = "py"),
     content |-> f,
     imports |-> imports \ {None}]

\* a registry in which the first file registered under a name keeps it
RegisterKeepFirst(m, module_name, module) ==
    IF module_name \in DOMAIN m THEN m ELSE (module_name :> module) @@ m

\* graph.py 149: self._modules[module_name] = module
Register(m, module_name, module) ==
    (module_name :> module) @@ [k \in DOMAIN m \ {module_name} |-> m[k]]

\* graph.py 128-149
ParseFileOp(g, f) ==
    LET module_name == FindModuleName([segs |-> <<f.stem>>, ext |-> f.ext], f.dir)
        r == ResolveAll(tree[f], f.dir, g.paths, g.cache, <<>>)
    IN  Graph(Register(g.modules, module_name, Module(module_name, f, r.imports)),
              r.cache, g.paths)

----------------------------------------------------------------------------
(* ModuleGraph.parse_paths *)

\* the files and the sub-directories of directory d in listing order; rev
\* chooses between the two listing orders the model lets the system give
FilesOf(d, rev) ==
    LET names == {<<f.stem, f.ext>> : f \in {x \in Files : x.dir = d}}
        sorted == SortSet(names, rev)
    IN  [i \in 1..Len(sorted) |-> File(d, sorted[i][1], sorted[i][2])]

SubDirsOf(d, rev) ==
    LET names == {<<f.dir[Len(d) + 1]>> :
                     f \in {x \in Files : IsPrefix(d, x.dir) /\ Len(x.dir) > Len(d)}}
        sorted == SortSet(names, rev)
    IN  [i \in 1..Len(sorted) |-> Append(d, sorted[i][1])]

\* graph.py 120-126: the files of one directory
RECURSIVE ParseFilesOf(_, _)
ParseFilesOf(g, fs) ==
    IF fs = <<>> THEN g
    ELSE ParseFilesOf(IF IsScanned(Head(fs)) THEN ParseFileOp(g, Head(fs)) ELSE g,
                      Tail(fs))

\* graph.py 117-126: os.walk, top down: the directory is appended to _paths,
\* its files are parsed, then its sub-directories are walked
RECURSIVE WalkOp(_, _, _)
RECURSIVE WalkAll(_, _, _)
WalkOp(g, d, rev) ==
    LET g1 == Graph(g.modules, g.cache, Append(g.paths, d))
        g2 == ParseFilesOf(g1, FilesOf(d, rev))
    IN  WalkAll(g2, SubDirsOf(d, rev), rev)

WalkAll(g, ds, rev) ==
    IF ds = <<>> THEN g ELSE WalkAll(WalkOp(g, Head(ds), rev), Tail(ds), rev)

\* graph.py 112-126
RECURSIVE ParsePathsOp(_, _, _)
ParsePathsOp(g, roots, rev) ==
    IF roots = <<>> THEN g
    ELSE IF ~DirExists(Head(roots)) THEN g
    ELSE ParsePathsOp(WalkOp(g, Head(roots), rev), Tail(roots), rev)

----------------------------------------------------------------------------
(* ModuleGraph._build_dependency_data and ModuleGraph.generate_data *)

\* toposort.toposort as called at graph.py 243: self-dependencies are
\* dropped, every name that is only depended on becomes an item without
\* dependencies, then the items without remaining dependencies are taken
\* level by level; what cannot be taken is a circular dependency
RECURSIVE TopoLevels(_)
TopoLevels(data) ==
    LET ordered == {item \in DOMAIN data : data[item] = {}}
    IN  IF ordered = {}
        THEN [levels |-> <<>>, left |-> data]
        ELSE LET rest == TopoLevels([item \in DOMAIN data \ ordered |->
                                        data[item] \ ordered])
             IN  [levels |-> <<ordered>> \o rest.levels, left |-> rest.left]

\* toposort.toposort_flatten(data, sort=True): each level sorted
RECURSIVE Flatten(_)
Flatten(levels) ==
    IF levels = <<>> THEN <<>> ELSE SortSet(Head(levels), FALSE) \o Flatten(Tail(levels))

ToposortFlatten(data) ==
    LET noself == [k \in DOMAIN data |-> data[k] \ {k}]
        extra == UNION {noself[k] : k \in DOMAIN noself} \ DOMAIN noself
        full == [k \in DOMAIN noself \cup extra |->
                    IF k \in DOMAIN noself THEN noself[k] ELSE {}]
        t == TopoLevels(full)
    IN  IF DOMAIN t.left # {}
        THEN [kind |-> "CircularDependencyError", value |-> t.left]
        ELSE [kind |-> "ok", value |-> Flatten(t.levels)]

\* a dependency table that leaves the imports out
BuildDependencyDataNoImports(m) ==
    ToposortFlatten([key \in DOMAIN m |-> {}])

\* graph.py 238-243
BuildDependencyData(m) ==
    ToposortFlatten([key \in DOMAIN m |-> m[key].imports])

\* graph.py 72-78
ToDict(module) ==
    [name |-> module.module_name, is_package |-> module.is_package,
     code |-> module.content]

\* a generate_data that returns the records in name order whatever the
\* ordering says
GenerateDataSwallow(m) ==
    LET names == SortSet(DOMAIN m, FALSE)
    IN  [kind |-> "ok", value |-> [i \in 1..Len(names) |-> ToDict(m[names[i]])]]

\* graph.py 103-110: the records in dependency order; self._modules[module]
\* raises KeyError at the first name that has no module
GenerateDataOp(m) ==
    LET list_dependencies == BuildDependencyData(m)
    IN  IF list_dependencies.kind # "ok" THEN list_dependencies
        ELSE LET order == list_dependencies.value
                 missing == {i \in 1..Len(order) : order[i] \notin DOMAIN m}
             IN  IF missing # {}
                 THEN [kind |-> "KeyError",
                       value |-> order[CHOOSE i \in missing : \A j \in missing : i <= j]]
                 ELSE [kind |-> "ok",
                       value |-> [i \in 1..Len(order) |-> ToDict(m[order[i]])]]

----------------------------------------------------------------------------
(* The inputs the model draws from *)

ImportInfo(n, l) == [name |-> n, level |-> l]

R == <<"r">>
Q == <<"q">>
S == <<"s">>
RA == <<"r", "a">>
RPkg == <<"r", "pkg">>
SPkg == <<"s", "pkg">>

\* the files a scanned tree is drawn from: two modules of r, the package a
\* beside the module a, a module of a second root, setup.py, and an entry
\* that is no source file
ScanFiles ==
    {File(R, "a", "py"), File(R, "b", "py"), File(RA, "__init__", "py"),
     File(Q, "b", "py"), File(R, "setup", "py"), File(R, "c", "pyc")}

\* the import statements a scanned file is drawn from: import a, import b,
\* import os
ScanImports ==
    {ImportInfo(<<"a">>, NoLevel), ImportInfo(<<"b">>, NoLevel),
     ImportInfo(<<"os">>, NoLevel)}

\* the files of the trees with packages and a directory on sys.path
ResolveFiles ==
    {File(R, "pkg", "py"), File(RPkg, "sub", "py"), File(S, "sub", "py"),
     File(SPkg, "__init__", "py")}

\* from . import sub, from .. import pkg, from pkg.sub import sym,
\* from pkg import *
ResolveImports ==
    {ImportInfo(<<"sub">>, 1), ImportInfo(<<"pkg">>, 2),
     ImportInfo(<<"pkg", "sub", "sym">>, 0), ImportInfo(<<"pkg", "*">>, 0)}

\* the roots a parse_paths call is drawn from; a root no file of the tree
\* lies under does not exist
Roots == {R, Q}

\* the trees over a file universe: at most MaxFiles files, at most
\* MaxImports of them holding one import statement
Trees(fileUniverse, importUniverse) ==
    LET fileSets == {F \in SUBSET fileUniverse : F # {} /\ Cardinality(F) <= MaxFiles}
        importing(F) == {G \in SUBSET {f \in F : f.ext = "py"} :
                            Cardinality(G) <= MaxImports}
    IN  UNION {UNION {{[f \in F |-> IF f \in G THEN <<pick[f]>> ELSE <<>>] :
                          pick \in [G -> importUniverse]} :
                      G \in importing(F)} :
               F \in fileSets}

NoOp == [op |-> "none", args |-> <<>>, ret |-> <<>>]

Fresh == Graph(<<>>, <<>>, sysPath)

Init ==
    /\ tree \in Trees(ScanFiles, ScanImports)
    /\ sysPath = <<>>
    /\ modules = <<>>
    /\ cache = <<>>
    /\ paths = sysPath
    /\ lastOp = NoOp

\* the same construction over the trees with packages, with or without the
\* directory s on sys.path
InitResolve ==
    /\ tree \in Trees(ResolveFiles, ResolveImports)
    /\ sysPath \in {<<>>, <<S>>}
    /\ modules = <<>>
    /\ cache = <<>>
    /\ paths = sysPath
    /\ lastOp = NoOp

----------------------------------------------------------------------------
(* The operations *)

Current == Graph(modules, cache, paths)

Install(g) ==
    /\ modules' = g.modules
    /\ cache' = g.cache
    /\ paths' = g.paths

\* the lists of distinct roots
RootLists ==
    {roots \in UNION {[1..n -> Roots] : n \in 1..Cardinality(Roots)} :
        \A i, j \in 1..Len(roots) : roots[i] = roots[j] => i = j}

\* parse_paths(roots); rev is the listing order the system gives
ParsePaths(roots, rev) ==
    /\ Len(paths) < MaxPaths
    /\ Install(ParsePathsOp(Current, roots, rev))
    /\ lastOp' = [op |-> "parse_paths", args |-> <<roots, Current = Fresh>>,
                  ret |-> <<>>]
    /\ UNCHANGED <<tree, sysPath>>

\* parse_file(file_name, file_path) of an existing source file; ret lists
\* the calls of _find_module_of_import it made
ParseFile(f) ==
    /\ f \in Files
    /\ f.ext = "py"
    /\ Install(ParseFileOp(Current, f))
    /\ lastOp' = [op |-> "parse_file", args |-> <<f>>,
                  ret |-> ResolveAll(tree[f], f.dir, paths, cache, <<>>).calls]
    /\ UNCHANGED <<tree, sysPath>>

\* generate_data()
GenerateData ==
    /\ lastOp' = [op |-> "generate_data", args |-> <<>>, ret |-> GenerateDataOp(modules)]
    /\ UNCHANGED <<tree, sysPath, modules, cache, paths>>

Next ==
    \/ \E roots \in RootLists, rev \in BOOLEAN : ParsePaths(roots, rev)
    \/ \E f \in Files : ParseFile(f)
    \/ GenerateData

Spec == Init /\ [][Next]_vars

SpecResolve == InitResolve /\ [][Next]_vars

----------------------------------------------------------------------------
(* Properties of the ordering: generate_data *)

Registered == DOMAIN modules

Returned == lastOp.op = "generate_data" /\ lastOp.ret.kind = "ok"

RecordNames == {lastOp.ret.value[i].name : i \in 1..Len(lastOp.ret.value)}

\* the registered modules reachable from A along recorded dependencies
RECURSIVE ReachFrom(_)
ReachFrom(seen) ==
    LET more == seen \cup (UNION {modules[x].imports : x \in seen} \cap Registered)
    IN  IF more = seen THEN seen ELSE ReachFrom(more)

DepsOf(A) == ReachFrom((modules[A].imports \ {A}) \cap Registered)

\* A lies on a dependency cycle of two or more registered modules
OnCycle(A) == \E B \in DepsOf(A) : B # A /\ A \in DepsOf(B)

Dangling == (UNION {modules[A].imports : A \in Registered}) \ Registered

\* C1: whenever generate_data returns a sequence, every registered module B
\* that another registered module A depends on has its record at a strictly
\* smaller position than the record of A.
C1_TopologicalValidity ==
    Returned =>
        \A A \in Registered : \A B \in modules[A].imports :
            (B # A /\ B \in Registered) =>
                \E i, j \in 1..Len(lastOp.ret.value) :
                    /\ i < j
                    /\ lastOp.ret.value[i].name = B
                    /\ lastOp.ret.value[j].name = A

C1_Witness ==
    /\ Returned
    /\ \E A \in Registered : \E B \in modules[A].imports : B # A /\ B \in Registered

\* C2: when the registered modules hold a dependency cycle of two or more
\* modules, generate_data returns no sequence: it fails with the circular
\* dependency error, whose data names every module on the cycle.
C2_AcyclicityEnforced ==
    (lastOp.op = "generate_data" /\ \E A \in Registered : OnCycle(A)) =>
        /\ lastOp.ret.kind = "CircularDependencyError"
        /\ \A A \in Registered : OnCycle(A) => A \in DOMAIN lastOp.ret.value

C2_Witness ==
    /\ lastOp.op = "generate_data"
    /\ \E A \in Registered : OnCycle(A)
    /\ lastOp.ret.kind = "CircularDependencyError"

\* C3: when a registered module depends on a name that has no module and the
\* registry holds no cycle, generate_data succeeds, with a record for every
\* registered module and none for the unregistered name.
C3_DanglingEdgesIgnored ==
    (lastOp.op = "generate_data" /\ Dangling # {} /\ \A A \in Registered : ~OnCycle(A)) =>
        /\ lastOp.ret.kind = "ok"
        /\ RecordNames = Registered

\* C10: whenever generate_data returns, the sequence holds exactly one record
\* for every name of the registry and no other, each with the module's name,
\* is_package flag and content; and a file parsed under a name already in
\* the registry takes the entry over, the name keeping a single module.
C10_PackComplete ==
    /\ Returned =>
          /\ Len(lastOp.ret.value) = Cardinality(Registered)
          /\ RecordNames = Registered
          /\ \A i \in 1..Len(lastOp.ret.value) :
                LET rec == lastOp.ret.value[i]
                IN  rec = [name |-> rec.name,
                           is_package |-> modules[rec.name].is_package,
                           code |-> modules[rec.name].content]
    /\ lastOp.op = "parse_file" =>
          \E k \in Registered :
              /\ modules[k].content = lastOp.args[1]
              /\ modules[k].module_name = k
              /\ modules[k].is_package = (lastOp.args[1].stem = "__init__")

\* a scan of r registered a.py and then a/__init__.py under one name
C10_Witness ==
    /\ Returned
    /\ Len(lastOp.ret.value) >= 1
    /\ \E k \in Registered :
          /\ modules[k].content = File(RA, "__init__", "py")
          /\ File(R, "a", "py") \in Files
          /\ \E i \in 1..Len(paths) : paths[i] = R

----------------------------------------------------------------------------
(* Properties of the scan: parse_paths, parse_file, _find_module_name *)

\* the name under which parse_file registers file f
RegisteredName(f) == FindModuleName([segs |-> <<f.stem>>, ext |-> f.ext], f.dir)

\* the directory holds a source file: a .py file other than setup.py
SourceContaining(d) == \E f \in Files : f.dir = d /\ f.ext = "py" /\ ~IsSetupPy(f)

\* the index in D of the outermost directory of the unbroken upward chain of
\* source-containing ancestors of D
OuterIndex(D) ==
    CHOOSE k \in 1..Len(D) :
        /\ \A j \in k..(Len(D) - 1) : SourceContaining(SubSeq(D, 1, j))
        /\ k = 1 \/ ~SourceContaining(SubSeq(D, 1, k - 1))

\* the canonical name the derivation rule gives file f
DerivedName(f) ==
    SubSeq(f.dir, OuterIndex(f.dir), Len(f.dir)) \o
        (IF f.stem = "__init__" /\ f.ext = "py" THEN <<>> ELSE <<f.stem>>)

\* the compound relative names of f: "mod.py", "sub/mod.py", "pkg/sub/mod.py"
CompoundNames(f) ==
    {[segs |-> SubSeq(f.dir, k, Len(f.dir)) \o <<f.stem>>, ext |-> f.ext] :
        k \in 1..(Len(f.dir) + 1)}

\* C7: the name of a parsed file is the dot-joined chain of directories from
\* the outermost ancestor of the unbroken chain of source-containing
\* directories down to its own directory, then its basename unless it is
\* __init__.py; a compound relative name gives the same name as the basename.
C7_NameDerivation ==
    lastOp.op = "parse_file" =>
        /\ DerivedName(lastOp.args[1]) \in Registered
        /\ modules[DerivedName(lastOp.args[1])].content = lastOp.args[1]
        /\ \A file_name \in CompoundNames(lastOp.args[1]) :
              FindModuleName(file_name, lastOp.args[1].dir) = DerivedName(lastOp.args[1])

\* the same statement on the trees where every entry with '.py' in its name
\* is a source file
C7_OnSourceOnlyTrees ==
    (\A f \in Files : DotPyIn(f) => f.ext = "py") => C7_NameDerivation

\* C5: after parse_paths(roots), every source file under every root of the
\* list that exists is registered, wherever a missing root stands in the list.
C5_MissingRootsSkipped ==
    lastOp.op = "parse_paths" =>
        \A i \in 1..Len(lastOp.args[1]) :
            DirExists(lastOp.args[1][i]) =>
                \A f \in Files :
                    (IsPrefix(lastOp.args[1][i], f.dir) /\ IsScanned(f)) =>
                        RegisteredName(f) \in Registered

Imports(m) == [k \in DOMAIN m |-> m[k].imports]

\* the orders in which a list of roots can be handed over
RootOrders(roots) ==
    {[i \in 1..Len(roots) |-> roots[sigma[i]]] :
        sigma \in {t \in [1..Len(roots) -> 1..Len(roots)] :
                      \A i, j \in 1..Len(roots) : t[i] = t[j] => i = j}}

\* C9: the dependency sets a scan of a new graph records are the same for
\* every order of the roots and every listing order of the directories.
C9_ScanOrderIndependent ==
    (/\ lastOp.op = "parse_paths"
     /\ lastOp.args[2]
     /\ \A i \in 1..Len(lastOp.args[1]) : DirExists(lastOp.args[1][i])) =>
        \A roots \in RootOrders(lastOp.args[1]) : \A rev \in BOOLEAN :
            Imports(ParsePathsOp(Fresh, roots, rev).modules) = Imports(modules)

----------------------------------------------------------------------------
(* Properties of the resolver: _find_module_of_import *)

ModFile(name) == [segs |-> name, ext |-> "py"]
PkgFile(name) == [segs |-> name \o <<"__init__">>, ext |-> "py"]

\* the file a relative file name denotes under a directory
FileAt(d, file_name) ==
    File(d \o Front(file_name.segs), Last(file_name.segs), file_name.ext)

\* the directory level - 1 levels above the origin directory
BaseDir(level, d) == SubSeq(d, 1, Len(d) - (level - 1))

\* the directories a reference is looked up in, in order
SearchDirs(level, d) == (IF level >= 2 THEN <<BaseDir(level, d)>> ELSE <<>>) \o paths

FoundIn(dirs, file_name) == {i \in 1..Len(dirs) : FileExists(dirs[i], file_name)}

Min(I) == CHOOSE i \in I : \A j \in I : i <= j
Max(I) == CHOOSE i \in I : \A j \in I : j <= i

\* the longest dotted prefix with a match decides; at that prefix the module
\* file before the package marker; in the first directory that holds it
LongestPrefixResult(name, level, d) ==
    LET dirs == SearchDirs(level, d)
        K == {k \in 1..Len(name) :
                 \/ FoundIn(dirs, ModFile(SubSeq(name, 1, k))) # {}
                 \/ FoundIn(dirs, PkgFile(SubSeq(name, 1, k))) # {}}
    IN  IF K = {} THEN name
        ELSE LET prefix == SubSeq(name, 1, Max(K))
                 file_name == IF FoundIn(dirs, ModFile(prefix)) # {}
                              THEN ModFile(prefix) ELSE PkgFile(prefix)
             IN  RegisteredName(FileAt(dirs[Min(FoundIn(dirs, file_name))], file_name))

\* the calls of _find_module_of_import the last operation made, when it
\* was a parse_file, and the origin directory of their references
Calls == IF lastOp.op = "parse_file" THEN lastOp.ret ELSE <<>>
ArgDir == lastOp.args[1].dir

\* a reference the lookup is made for: no built-in name and no wildcard
LookedUp(call) == call.imp_name \notin Builtins /\ ~EndsWithWildcard(call.imp_name)

\* C6: a reference that is no built-in name, no wildcard and not cached
\* resolves to the canonical name of the file matched by its longest dotted
\* prefix that has a match, the module file before the package marker, and to
\* the unshortened reference when no prefix has a match.
C6_ResolverShortening ==
    \A i \in 1..Len(Calls) :
        (LookedUp(Calls[i]) /\ ~Calls[i].cached) =>
            Calls[i].result =
                LongestPrefixResult(Calls[i].imp_name, Calls[i].imp_level, ArgDir)

\* pkg.sub.sym resolved to the file pkg/sub.py
C6_Witness ==
    \E i \in 1..Len(Calls) :
        /\ ~Calls[i].cached
        /\ Calls[i].imp_name = <<"pkg", "sub", "sym">>
        /\ File(RPkg, "sub", "py") \in Files
        /\ Calls[i].result = RegisteredName(File(RPkg, "sub", "py"))

\* C4: once a call of _find_module_of_import has returned, the same call
\* returns the same result after any further step of the run.
C4_ResolverDeterminism ==
    [][\A i \in 1..Len(Calls) :
          FindModuleOfImport(Calls[i].imp_name, Calls[i].imp_level, ArgDir,
                             paths', cache').result = Calls[i].result]_vars

\* C8: a reference of level >= 1 whose base directory holds a module or
\* package-marker file for the name resolves to the canonical name of that
\* file of the base directory.
C8_RelativeBase ==
    \A i \in 1..Len(Calls) :
        (Calls[i].imp_level >= 1 /\ LookedUp(Calls[i])) =>
            LET B == BaseDir(Calls[i].imp_level, ArgDir)
                inB == {fn \in {ModFile(Calls[i].imp_name), PkgFile(Calls[i].imp_name)} :
                           FileExists(B, fn)}
            IN  inB # {} => Calls[i].result \in {RegisteredName(FileAt(B, fn)) : fn \in inB}

====
